---- MODULE Spec2Model ----
(***************************************************************************)
(* Model of lib/browser.js of engine.io-parser: the packet codec           *)
(* (encodePacket, decodePacket) and the payload codec (encodePayload,      *)
(* decodePayload).                                                         *)
(*                                                                         *)
(* A JavaScript string is a sequence of one-character strings.  A          *)
(* JavaScript value is a record tagged by t: "undefined", "string" or      *)
(* "binary".  A packet is a record with a type field and, when it carries  *)
(* data, a data field holding a value.  The text-codec branches            *)
(* (utf8encode, utf8decode) are not taken: every call modelled passes      *)
(* false for them, as encodePayload and decodePayload do.                  *)
(***************************************************************************)
EXTENDS Integers, Sequences, FiniteSets, TLC

(***************************************************************************)
(* Bounds of the model.                                                    *)
(***************************************************************************)
\* longest stream handed to decodePayload by exhaustive enumeration
MaxStreamLen == 5
\* longest text handed to encodePacket / decodePacket
MaxDataLen == 3
\* most packets handed to encodePayload
MaxPackets == 2
\* longest text carried by a packet handed to encodePayload
MaxPayloadData == 1
\* most elements handed to map when its operations complete in any order
MaxMapLen == 3
\* numbers at or above Huge are kept as Huge (they exceed every stream length)
Huge == 10000

(***************************************************************************)
(* Characters and strings.                                                 *)
(***************************************************************************)
DecDigits == <<"0", "1", "2", "3", "4", "5", "6", "7", "8", "9">>

HexDigits == <<"0", "1", "2", "3", "4", "5", "6", "7", "8", "9",
               "a", "b", "c", "d", "e", "f">>

HexUpper == <<"0", "1", "2", "3", "4", "5", "6", "7", "8", "9",
              "A", "B", "C", "D", "E", "F">>

\* the characters StringToNumber strips from both ends
WhiteSpace == {" ", "\t", "\n", "\r"}

Range(s) == {s[k] : k \in DOMAIN s}

IndexOf(c, s) == CHOOSE k \in DOMAIN s : s[k] = c

\* the value of one digit in the given base, or -1
DigitValue(c, base) ==
    IF \E k \in 1..base : HexDigits[k] = c
    THEN (CHOOSE k \in 1..base : HexDigits[k] = c) - 1
    ELSE IF \E k \in 1..base : HexUpper[k] = c
    THEN (CHOOSE k \in 1..base : HexUpper[k] = c) - 1
    ELSE -1

AllDigits(s, base) == \A k \in DOMAIN s : DigitValue(s[k], base) >= 0

\* a * b, kept at Huge once it reaches it
CapMul(a, b) ==
    IF a = 0 \/ b = 0 THEN 0
    ELSE IF a >= Huge \/ b >= Huge THEN Huge
    ELSE IF a * b >= Huge THEN Huge ELSE a * b

CapAdd(a, b) == IF a + b >= Huge THEN Huge ELSE a + b

\* the number written by the digits s in the given base, kept at Huge
RECURSIVE DigitsValue(_, _)
DigitsValue(s, base) ==
    IF s = <<>> THEN 0
    ELSE CapAdd(CapMul(DigitsValue(SubSeq(s, 1, Len(s) - 1), base), base),
                DigitValue(s[Len(s)], base))

\* String(k) for a non-negative integer k: its decimal digits
RECURSIVE NatToStr(_)
NatToStr(k) ==
    IF k < 10 THEN <<DecDigits[k + 1]>>
    ELSE NatToStr(k \div 10) \o <<DecDigits[(k % 10) + 1]>>

RECURSIVE TrimLeft(_)
TrimLeft(s) ==
    IF s # <<>> /\ s[1] \in WhiteSpace THEN TrimLeft(Tail(s)) ELSE s

RECURSIVE TrimRight(_)
TrimRight(s) ==
    IF s # <<>> /\ s[Len(s)] \in WhiteSpace
    THEN TrimRight(SubSeq(s, 1, Len(s) - 1)) ELSE s

RECURSIVE StripTrailingZeros(_)
StripTrailingZeros(s) ==
    IF s # <<>> /\ s[Len(s)] = "0"
    THEN StripTrailingZeros(SubSeq(s, 1, Len(s) - 1)) ELSE s

RECURSIVE Zeros(_)
Zeros(k) == IF k <= 0 THEN <<>> ELSE <<"0">> \o Zeros(k - 1)

\* the longest prefix of s made of decimal digits
RECURSIVE DigitPrefix(_)
DigitPrefix(s) ==
    IF s # <<>> /\ DigitValue(s[1], 10) >= 0
    THEN <<s[1]>> \o DigitPrefix(Tail(s)) ELSE <<>>

Drop(s, k) == SubSeq(s, k + 1, Len(s))

(***************************************************************************)
(* Numbers.  A number is [nan, neg, int, frac]: not-a-number, or the sign, *)
(* the integer part (Huge stands for every value at or above Huge,         *)
(* Infinity included) and the digits of the fractional part without        *)
(* trailing zeros.  Strings of fewer than 16 significant digits are        *)
(* represented exactly by a double, so no rounding is modelled.            *)
(***************************************************************************)
NaN == [nan |-> TRUE, neg |-> FALSE, int |-> 0, frac |-> <<>>]

IntNum(k) == [nan |-> FALSE, neg |-> FALSE, int |-> k, frac |-> <<>>]

Finite(neg, int, frac) == [nan |-> FALSE, neg |-> neg, int |-> int, frac |-> frac]

InfinityLiteral == <<"I", "n", "f", "i", "n", "i", "t", "y">>

Pow10Cap(k) == IF k >= 4 THEN Huge
               ELSE IF k = 3 THEN 1000
               ELSE IF k = 2 THEN 100
               ELSE IF k = 1 THEN 10 ELSE 1

\* digits d scaled by 10^shift
ScaleDigits(neg, d, shift) ==
    IF shift >= 0
    THEN Finite(neg, CapMul(DigitsValue(d, 10), Pow10Cap(shift)), <<>>)
    ELSE LET k == 0 - shift
             p == Zeros(k - Len(d)) \o d
         IN  Finite(neg, DigitsValue(SubSeq(p, 1, Len(p) - k), 10),
                    StripTrailingZeros(SubSeq(p, Len(p) - k + 1, Len(p))))

\* StrDecimalLiteral, with its optional sign
ParseDecimal(s) ==
    LET signed == s # <<>> /\ s[1] \in {"+", "-"}
        neg    == s # <<>> /\ s[1] = "-"
        body   == IF signed THEN Tail(s) ELSE s
        ip     == DigitPrefix(body)
        r1     == Drop(body, Len(ip))
        dot    == r1 # <<>> /\ r1[1] = "."
        fp     == IF dot THEN DigitPrefix(Tail(r1)) ELSE <<>>
        r2     == IF dot THEN Drop(r1, 1 + Len(fp)) ELSE r1
        hasExp == r2 # <<>> /\ r2[1] \in {"e", "E"}
        er     == IF hasExp THEN Tail(r2) ELSE <<>>
        eneg   == er # <<>> /\ er[1] = "-"
        ed     == IF er # <<>> /\ er[1] \in {"+", "-"} THEN Tail(er) ELSE er
        exp    == IF eneg THEN 0 - DigitsValue(ed, 10) ELSE DigitsValue(ed, 10)
    IN  IF body = InfinityLiteral THEN Finite(neg, Huge, <<>>)
        ELSE IF Len(ip) + Len(fp) = 0 THEN NaN
        ELSE IF r2 = <<>> THEN ScaleDigits(neg, ip \o fp, 0 - Len(fp))
        ELSE IF hasExp /\ ed # <<>> /\ AllDigits(ed, 10)
        THEN ScaleDigits(neg, ip \o fp, exp - Len(fp))
        ELSE NaN

\* the base of a NonDecimalIntegerLiteral prefix, or 0
RadixOf(s) ==
    IF Len(s) >= 3 /\ s[1] = "0"
    THEN IF s[2] \in {"x", "X"} THEN 16
         ELSE IF s[2] \in {"o", "O"} THEN 8
         ELSE IF s[2] \in {"b", "B"} THEN 2 ELSE 0
    ELSE 0

\* Number(s) for a string s (ECMAScript StringToNumber)
Number(s) ==
    LET t == TrimRight(TrimLeft(s))
    IN  IF t = <<>> THEN IntNum(0)
        ELSE IF RadixOf(t) # 0 /\ AllDigits(Drop(t, 2), RadixOf(t))
        THEN IntNum(DigitsValue(Drop(t, 2), RadixOf(t)))
        ELSE ParseDecimal(t)

\* a == b on two numbers (NaN equals nothing, -0 equals +0)
NumEq(a, b) ==
    /\ ~a.nan /\ ~b.nan
    /\ a.int = b.int /\ a.frac = b.frac
    /\ (a.neg = b.neg \/ (a.int = 0 /\ a.frac = <<>>))

\* mutant of StrNeqNum: a length of zero is taken for a failed conversion
StrNeqNum_zeroFails(str, num) ==
    ~NumEq(Number(str), num) \/ (Number(str).int = 0 /\ Number(str).frac = <<>>)

\* str != num with a string on the left: the string is converted by Number
StrNeqNum(str, num) == ~NumEq(Number(str), num)

\* ToIntegerOrInfinity: truncation toward zero; NaN gives 0
ToInteger(n) == IF n.nan THEN 0 ELSE IF n.neg THEN 0 - n.int ELSE n.int

\* mutant of PlusNum: the cursor is used without the frame length
PlusNum_noAdvance(i, n) == i

\* mutant of PlusNum: the frame length is assigned, not added
PlusNum_assign(i, n) == ToInteger(n)

\* i + n for an integer i and a number n that equals an integer
PlusNum(i, n) == i + ToInteger(n)

Min(a, b) == IF a < b THEN a ELSE b

Max(a, b) == IF a > b THEN a ELSE b

\* mutant of substr: the second argument read as an end index (substring)
substr_asSubstring(s, start, n) ==
    LET size == Len(s)
        a    == Min(Max(start, 0), size)
        b    == Min(Max(ToInteger(n), 0), size)
    IN  SubSeq(s, Min(a, b) + 1, Max(a, b))

\* String.prototype.substr(start, length) with 0-based start and a number length
substr(s, start, n) ==
    LET size == Len(s)
        from == Min(Max(start, 0), size)
        len  == Min(Max(ToInteger(n), 0), size)
        to   == Min(from + len, size)
    IN  SubSeq(s, from + 1, to)

\* String.prototype.charAt(i) with 0-based i
charAt(s, i) == IF i >= 0 /\ i < Len(s) THEN <<s[i + 1]>> ELSE <<>>

(***************************************************************************)
(* Values and packets.                                                     *)
(***************************************************************************)
Undefined == [t |-> "undefined"]

Str(s) == [t |-> "string", v |-> s]

\* a binary chunk: kind is "ArrayBuffer" or "Uint8Array", v its bytes
Bin(kind, bytes) == [t |-> "binary", kind |-> kind, v |-> bytes]

\* exports.packets: the packet types and their codes
packets == [open |-> 0, close |-> 1, ping |-> 2, pong |-> 3,
            message |-> 4, upgrade |-> 5, noop |-> 6]

\* keys(packets): the type names in the order of their codes
packetslist == <<"open", "close", "ping", "pong", "message", "upgrade", "noop">>

\* the premade error packet
err == [type |-> "error",
        data |-> Str(<<"p", "a", "r", "s", "e", "r", " ", "e", "r", "r", "o", "r">>)]

HasData(p) == "data" \in DOMAIN p

\* packet.data, undefined when the packet has no data field
DataOf(p) == IF HasData(p) THEN p.data ELSE Undefined

RECURSIVE JoinBytes(_)
JoinBytes(b) ==
    IF b = <<>> THEN <<>>
    ELSE IF Len(b) = 1 THEN NatToStr(b[1])
    ELSE NatToStr(b[1]) \o <<",">> \o JoinBytes(Tail(b))

ObjectArrayBuffer == <<"[", "o", "b", "j", "e", "c", "t", " ", "A", "r", "r",
                       "a", "y", "B", "u", "f", "f", "e", "r", "]">>

UndefinedText == <<"u", "n", "d", "e", "f", "i", "n", "e", "d">>

\* String(v)
StringOf(v) ==
    IF v.t = "string" THEN v.v
    ELSE IF v.t = "binary"
    THEN (IF v.kind = "Uint8Array" THEN JoinBytes(v.v) ELSE ObjectArrayBuffer)
    ELSE UndefinedText

\* "" + packets[type]
TypeCode(type) ==
    IF type \in DOMAIN packets THEN NatToStr(packets[type]) ELSE UndefinedText

\* packetslist[key] for a string key: the name, or "" for undefined
PacketsListAt(key) ==
    IF Len(key) = 1 /\ DigitValue(key[1], 10) >= 0 /\ DigitValue(key[1], 10) < Len(packetslist)
    THEN packetslist[DigitValue(key[1], 10) + 1]
    ELSE ""

\* packetslist[b] for a byte b or the undefined first element (-1) of an empty array
PacketsListAtByte(b) ==
    IF b >= 0 /\ b < Len(packetslist) THEN packetslist[b + 1] ELSE ""

\* mutant of encodePacket: the data fragment is appended even when absent
encodePacket_alwaysAppends(packet, supportsBinary) ==
    Str(TypeCode(packet.type) \o StringOf(DataOf(packet)))

(***************************************************************************)
(* exports.encodePacket with utf8encode false: the value handed to the     *)
(* callback.  supportsBinary is accepted and never read.                   *)
(***************************************************************************)
encodePacket(packet, supportsBinary) ==
    IF HasData(packet) /\ packet.data # Undefined
    THEN Str(TypeCode(packet.type) \o StringOf(packet.data))
    ELSE Str(TypeCode(packet.type))

\* mutant of decodePacket: the type digit is left in the data
decodePacket_keepDigit(data) ==
    IF data = Undefined THEN err
    ELSE IF data.t = "string"
    THEN LET type == charAt(data.v, 0)
         IN  IF StrNeqNum(type, Number(type)) \/ PacketsListAt(type) = ""
             THEN err
             ELSE IF Len(data.v) > 1
             THEN [type |-> PacketsListAt(type), data |-> Str(data.v)]
             ELSE [type |-> PacketsListAt(type)]
    ELSE LET type == IF data.v = <<>> THEN -1 ELSE data.v[1]
         IN  [type |-> PacketsListAtByte(type), data |-> Bin(data.kind, Drop(data.v, 1))]

\* mutant of decodePacket: the type is not looked up in the table before use
decodePacket_noTableCheck(data) ==
    IF data = Undefined THEN err
    ELSE IF data.t = "string"
    THEN LET type == charAt(data.v, 0)
         IN  IF StrNeqNum(type, Number(type))
             THEN err
             ELSE IF Len(data.v) > 1
             THEN [type |-> PacketsListAt(type), data |-> Str(Drop(data.v, 1))]
             ELSE [type |-> PacketsListAt(type)]
    ELSE LET type == IF data.v = <<>> THEN -1 ELSE data.v[1]
         IN  [type |-> PacketsListAtByte(type), data |-> Bin(data.kind, Drop(data.v, 1))]

\* mutant of decodePacket: a first byte outside the table gives the error packet
decodePacket_binaryValidated(data) ==
    IF data = Undefined THEN err
    ELSE IF data.t = "string"
    THEN LET type == charAt(data.v, 0)
         IN  IF StrNeqNum(type, Number(type)) \/ PacketsListAt(type) = ""
             THEN err
             ELSE IF Len(data.v) > 1
             THEN [type |-> PacketsListAt(type), data |-> Str(Drop(data.v, 1))]
             ELSE [type |-> PacketsListAt(type)]
    ELSE LET type == IF data.v = <<>> THEN -1 ELSE data.v[1]
         IN  IF PacketsListAtByte(type) = "" THEN err
             ELSE [type |-> PacketsListAtByte(type), data |-> Bin(data.kind, Drop(data.v, 1))]

(***************************************************************************)
(* exports.decodePacket with utf8decode false.                             *)
(***************************************************************************)
decodePacket(data) ==
    IF data = Undefined THEN err
    ELSE IF data.t = "string"
    THEN LET type == charAt(data.v, 0)
         IN  IF StrNeqNum(type, Number(type)) \/ PacketsListAt(type) = ""
             THEN err
             ELSE IF Len(data.v) > 1
             THEN [type |-> PacketsListAt(type), data |-> Str(Drop(data.v, 1))]
             ELSE [type |-> PacketsListAt(type)]
    ELSE LET type == IF data.v = <<>> THEN -1 ELSE data.v[1]
         IN  [type |-> PacketsListAtByte(type), data |-> Bin(data.kind, Drop(data.v, 1))]

(***************************************************************************)
(* State.                                                                  *)
(***************************************************************************)
VARIABLES
    pc,              \* position of the run
    packet,          \* the packet handed to encodePacket (NoPacket: none)
    supportsBinary,  \* the supportsBinary argument
    wire,            \* the value handed to decodePacket
    decoded,         \* the packet decodePacket returned
    packetsIn,       \* the packets handed to encodePayload
    encoded,         \* the values encodePayload handed to its callback
    data,            \* the stream handed to decodePayload
    i,               \* decodePayload: the cursor
    length,          \* decodePayload: the accumulated length prefix
    calls,           \* decodePayload: the callback invocations so far
    lastRet,         \* decodePayload: what the latest callback returned
    result,          \* map: the result array
    count,           \* map: the count of the barrier made by after
    pending,         \* map: the elements whose operation has yet to complete
    doneCalls        \* map: the invocations of done so far

mapVars == <<result, count, pending, doneCalls>>

vars == <<pc, packet, supportsBinary, wire, decoded, packetsIn, encoded,
          data, i, length, calls, lastRet, result, count, pending, doneCalls>>

\* no call of map is under way
MapIdle == result = <<>> /\ count = 0 /\ pending = {} /\ doneCalls = <<>>

NoPacket == [type |-> "none"]

(***************************************************************************)
(* Inputs.                                                                 *)
(***************************************************************************)
\* all strings over the characters cs of length at most n
Strings(cs, n) == UNION {[1..k -> cs] : k \in 0..n}

Types == {"open", "close", "ping", "pong", "message", "upgrade", "noop"}

PacketChars == {"0", "4", "7", "a", ":", " "}

ByteValues == {0, 4, 7, 255}

Binaries == {Bin(k, b) : k \in {"ArrayBuffer", "Uint8Array"},
                         b \in Strings(ByteValues, MaxDataLen - 1)}

PacketInputs ==
    {[type |-> ty] : ty \in Types}
    \cup {[type |-> ty, data |-> Str(d)] :
             ty \in Types, d \in Strings(PacketChars, MaxDataLen)}
    \cup {[type |-> ty, data |-> b] : ty \in Types, b \in Binaries}

FirstChars == {"0", "1", "2", "3", "4", "5", "6", "7", "8", "9",
               "a", " ", ":", "-", "+", ".", "e"}

WireInputs ==
    {Undefined, Str(<<>>)}
    \cup {Str(<<c>> \o r) : c \in FirstChars, r \in Strings(PacketChars, MaxDataLen - 1)}
    \cup Binaries

(***************************************************************************)
(* The packet codec as a run: encodePacket of a packet, then decodePacket  *)
(* of what it produced; or decodePacket of a value received from a peer.   *)
(***************************************************************************)
InitPacket ==
    /\ \/ /\ packet \in PacketInputs
          /\ pc = "packet"
          /\ wire = Undefined
       \/ /\ packet = NoPacket
          /\ pc = "wire"
          /\ wire \in WireInputs
    /\ supportsBinary \in BOOLEAN
    /\ decoded = NoPacket
    /\ packetsIn = <<>>
    /\ encoded = <<>>
    /\ data = <<>>
    /\ i = 0
    /\ length = <<>>
    /\ calls = <<>>
    /\ lastRet = "none"
    /\ MapIdle

EncodePacket ==
    /\ pc = "packet"
    /\ wire' = encodePacket(packet, supportsBinary)
    /\ pc' = "wire"
    /\ UNCHANGED <<packet, supportsBinary, decoded, packetsIn, encoded,
                   data, i, length, calls, lastRet>>
    /\ UNCHANGED mapVars

DecodePacket ==
    /\ pc = "wire"
    /\ decoded' = decodePacket(wire)
    /\ pc' = "decoded"
    /\ UNCHANGED <<packet, supportsBinary, wire, packetsIn, encoded,
                   data, i, length, calls, lastRet>>
    /\ UNCHANGED mapVars

NextPacket == EncodePacket \/ DecodePacket

SpecPacket == InitPacket /\ [][NextPacket]_vars

(***************************************************************************)
(* exports.encodePayload.                                                  *)
(***************************************************************************)
\* hasBinary(packets): some packet carries a binary chunk
hasBinary(ps) == \E k \in DOMAIN ps : HasData(ps[k]) /\ ps[k].data.t = "binary"

\* mutant of setLengthHeader: the type digit is left out of the count
setLengthHeader_dataOnly(message) ==
    NatToStr(Len(message) - 1) \o <<":">> \o message

setLengthHeader(message) == NatToStr(Len(message)) \o <<":">> \o message

\* the value encodeOne hands to doneCallback for one packet
encodeOne(p, isBinary, sb) ==
    setLengthHeader(encodePacket(p, IF ~isBinary THEN FALSE ELSE sb).v)

\* results.join("")
RECURSIVE Join(_)
Join(results) ==
    IF results = <<>> THEN <<>> ELSE results[1] \o Join(Tail(results))

\* mutant of map: the results are kept in reverse order
map_reversed(ary, isBinary, sb) ==
    [k \in DOMAIN ary |-> encodeOne(ary[Len(ary) + 1 - k], isBinary, sb)]

\* map(ary, encodeOne, done): encodeOne completes before it returns, so
\* result[i] is set in index order and done receives result once, after the last
map(ary, isBinary, sb) == [k \in DOMAIN ary |-> encodeOne(ary[k], isBinary, sb)]

\* mutant of encodePayload: no packets give the empty string
encodePayload_emptyString(ps, sb) ==
    IF Len(ps) = 0 THEN <<>>
    ELSE Join(map(ps, hasBinary(ps), sb))

\* the string encodePayload hands to its callback
encodePayload(ps, sb) ==
    IF Len(ps) = 0 THEN <<"0", ":">>
    ELSE Join(map(ps, hasBinary(ps), sb))

(***************************************************************************)
(* exports.decodePayload, one step per loop iteration.  A callback         *)
(* invocation is recorded in calls; what the callback returns (or that it  *)
(* throws) is the consumer's choice.                                       *)
(***************************************************************************)
Rets == {"false", "undefined", "0", "null", "throw"}

Call(p, a, b) == [packet |-> p, pos |-> a, total |-> b]

\* mutant of Halts: every falsy return value ends the scan
Halts_falsy(ret) == ret \in {"false", "undefined", "0", "null", "throw"}

\* the scan ends after a packet callback: false === ret, or the callback threw
Halts(ret) == ret \in {"false", "throw"}

\* mutant of ParserError: the error is reported at the cursor
ParserError_atCursor ==
    /\ calls' = Append(calls, Call(err, i, Len(data)))
    /\ lastRet' \in Rets
    /\ pc' = "done"
    /\ UNCHANGED <<i, length>>

\* return callback(err, 0, 1)
ParserError ==
    /\ calls' = Append(calls, Call(err, 0, 1))
    /\ lastRet' \in Rets
    /\ pc' = "done"
    /\ UNCHANGED <<i, length>>

\* mutant of IsErr: the decoded packet is not compared with the error packet
IsErr_unchecked(p) == FALSE

\* the packet is the error packet
IsErr(p) == err.type = p.type /\ err.data = DataOf(p)

\* mutant of DecodePayloadBegin: the empty stream is scanned like any other
DecodePayloadBegin_noEmptyCheck ==
    /\ pc = "decode"
    /\ i' = 0
    /\ length' = <<>>
    /\ pc' = "loop"
    /\ UNCHANGED <<calls, lastRet>>
    /\ UNCHANGED <<packet, supportsBinary, wire, decoded, packetsIn, encoded, data>>
    /\ UNCHANGED mapVars

DecodePayloadBegin ==
    /\ pc = "decode"
    /\ IF data = <<>>
       THEN ParserError
       ELSE /\ i' = 0
            /\ length' = <<>>
            /\ pc' = "loop"
            /\ UNCHANGED <<calls, lastRet>>
    /\ UNCHANGED <<packet, supportsBinary, wire, decoded, packetsIn, encoded, data>>
    /\ UNCHANGED mapVars

\* the frame at the ':' under the cursor
FrameLength == Number(length)

FrameMsg == substr(data, i + 1, FrameLength)

DecodeStep ==
    /\ pc = "loop"
    /\ i < Len(data)
    /\ LET chr == charAt(data, i)
           n   == FrameLength
           msg == FrameMsg
       IN  IF chr # <<":">>
           THEN /\ length' = length \o chr
                /\ i' = i + 1
                /\ UNCHANGED <<pc, calls, lastRet>>
           ELSE IF length = <<>> \/ StrNeqNum(length, n)
           THEN ParserError
           ELSE IF StrNeqNum(length, IntNum(Len(msg)))
           THEN ParserError
           ELSE IF Len(msg) # 0
           THEN IF IsErr(decodePacket(Str(msg)))
                THEN ParserError
                ELSE \E ret \in Rets :
                        /\ calls' = Append(calls, Call(decodePacket(Str(msg)),
                                                       PlusNum(i, n), Len(data)))
                        /\ lastRet' = ret
                        /\ IF Halts(ret)
                           THEN /\ pc' = "done"
                                /\ UNCHANGED <<i, length>>
                           ELSE /\ i' = PlusNum(i, n) + 1
                                /\ length' = <<>>
                                /\ pc' = pc
           ELSE /\ i' = PlusNum(i, n) + 1
                /\ length' = <<>>
                /\ UNCHANGED <<pc, calls, lastRet>>
    /\ UNCHANGED <<packet, supportsBinary, wire, decoded, packetsIn, encoded, data>>
    /\ UNCHANGED mapVars

\* mutant of DecodeEnd: a stream that ends inside a length prefix ends silently
DecodeEnd_silent ==
    /\ pc = "loop"
    /\ i >= Len(data)
    /\ pc' = "done"
    /\ UNCHANGED <<i, length, calls, lastRet>>
    /\ UNCHANGED <<packet, supportsBinary, wire, decoded, packetsIn, encoded, data>>
    /\ UNCHANGED mapVars

DecodeEnd ==
    /\ pc = "loop"
    /\ i >= Len(data)
    /\ IF length # <<>>
       THEN ParserError
       ELSE /\ pc' = "done"
            /\ UNCHANGED <<i, length, calls, lastRet>>
    /\ UNCHANGED <<packet, supportsBinary, wire, decoded, packetsIn, encoded, data>>
    /\ UNCHANGED mapVars

(***************************************************************************)
(* decodePayload of a stream received from a peer.                         *)
(***************************************************************************)
StreamChars == {"0", "1", "2", ":", "a", " "}

ExampleStreams == {
    <<"3", ":", "4", "a", "b">>,
    <<"3", ":", "4", "a", "b", "c">>,
    <<"1", "1", ":", "4", "h", "e", "l", "l", "o", " ", "w", "o", "r", "l", "d",
      "2", ":", "4", "h", "i">>,
    <<"2", ":", "4", "a", "0", ":", "2", ":", "4", "b">>,
    <<"1", ":", "7">>,
    <<"1", ":", "9", "1", ":", "4">>,
    <<"+", "1", ":", "4">>,
    <<"-", "1", ":", "4">>,
    <<"-", "0", ":", "1", ":", "4">>,
    <<"1", ".", "0", ":", "4">>,
    <<"1", ".", "5", ":", "4", "a">>,
    <<".", "5", ":", "4">>,
    <<"1", "e", "0", ":", "4">>,
    <<"1", "e", "1", ":", "4", "a", "a", "a", "a", "a", "a", "a", "a", "a">>,
    <<"1", "e", "9", ":", "4">>,
    <<"0", "x", "2", ":", "4", "a">>,
    <<"0", "b", "1", "0", ":", "4", "a">>,
    <<"0", "2", ":", "4", "a">>,
    <<"I", "n", "f", "i", "n", "i", "t", "y", ":", "4">>,
    <<"1", "x", ":", "4">>,
    <<"1", ":", "4", "1", ":", "2", "1", ":">>,
    <<"1", ":", "4", "2", ":", "4", ":", "a", ":", "1">>,
    <<" ", "2", ":", "4", "a">>,
    <<"4", ":", "4", "a", "b">>,
    <<"1", ":", "4", "2", ":", "4", "a", "3", ":", "4", "a", "b">>
  }

StreamInputs == Strings(StreamChars, MaxStreamLen) \cup ExampleStreams

InitDecode ==
    /\ data \in StreamInputs
    /\ pc = "decode"
    /\ packet = NoPacket
    /\ supportsBinary = FALSE
    /\ wire = Undefined
    /\ decoded = NoPacket
    /\ packetsIn = <<>>
    /\ encoded = <<>>
    /\ i = 0
    /\ length = <<>>
    /\ calls = <<>>
    /\ lastRet = "none"
    /\ MapIdle

NextDecode == DecodePayloadBegin \/ DecodeStep \/ DecodeEnd

SpecDecode == InitDecode /\ [][NextDecode]_vars

\* A call that has not returned takes its next step: decodePayload is
\* synchronous and nothing interrupts its loop.  NextDecode is enabled exactly
\* while pc # "done" and each of its steps changes pc or the cursor, so the
\* condition is weak fairness of NextDecode, written with the two variables
\* every step changes.
Running == pc # "done" /\ pc' \in {"loop", "done"} /\ i' \in 0..Len(data)

SpecDecodeLive == InitDecode /\ [][NextDecode]_vars /\ WF_<<pc, i>>(Running)

(***************************************************************************)
(* encodePayload of a sequence of packets, then decodePayload of the       *)
(* stream it produced.                                                     *)
(***************************************************************************)
PayloadChars == {":", "1"}

\* the types of the enumerated payloads; AllTypesPayload carries the others
PayloadTypes == {"open", "message", "noop"}

PayloadPackets ==
    {[type |-> ty] : ty \in PayloadTypes}
    \cup {[type |-> ty, data |-> Str(d)] :
             ty \in PayloadTypes, d \in Strings(PayloadChars, MaxPayloadData)}

AllTypesPayload ==
    <<[type |-> "open"], [type |-> "close", data |-> Str(<<"1">>)],
      [type |-> "ping"], [type |-> "pong", data |-> Str(<<":">>)],
      [type |-> "message", data |-> Str(<<"a", ":", "1">>)],
      [type |-> "upgrade", data |-> Str(<<"0", ":">>)], [type |-> "noop"]>>

HelloWorld == <<"h", "e", "l", "l", "o", " ", "w", "o", "r", "l", "d">>

ExamplePayloads == {
    <<[type |-> "message", data |-> Str(HelloWorld)],
      [type |-> "message", data |-> Str(<<"h", "i">>)]>>,
    <<[type |-> "message", data |-> Str(<<"1", ":", "4">>)], [type |-> "ping"]>>,
    <<[type |-> "open", data |-> Str(<<"2", ":", "4", "a", "0", ":">>)],
      [type |-> "noop", data |-> Str(<<>>)],
      [type |-> "close", data |-> Str(<<" ", "3", ":">>)]>>,
    <<[type |-> "message", data |-> Bin("ArrayBuffer", <<1, 2>>)],
      [type |-> "pong", data |-> Str(<<"a">>)]>>,
    <<[type |-> "message", data |-> Bin("Uint8Array", <<1, 2>>)]>>,
    AllTypesPayload
  }

PayloadInputs ==
    UNION {[1..k -> PayloadPackets] : k \in 0..MaxPackets} \cup ExamplePayloads

InitPayload ==
    /\ packetsIn \in PayloadInputs
    /\ supportsBinary \in BOOLEAN
    /\ pc = "encode"
    /\ packet = NoPacket
    /\ wire = Undefined
    /\ decoded = NoPacket
    /\ encoded = <<>>
    /\ data = <<>>
    /\ i = 0
    /\ length = <<>>
    /\ calls = <<>>
    /\ lastRet = "none"
    /\ MapIdle

\* encodePayload; the stream handed to its callback is then decoded
EncodePayload ==
    /\ pc = "encode"
    /\ encoded' = Append(encoded, encodePayload(packetsIn, supportsBinary))
    /\ data' = encodePayload(packetsIn, supportsBinary)
    /\ pc' = "decode"
    /\ UNCHANGED <<packet, supportsBinary, wire, decoded, packetsIn,
                   i, length, calls, lastRet>>
    /\ UNCHANGED mapVars

NextPayload == EncodePayload \/ DecodePayloadBegin \/ DecodeStep \/ DecodeEnd

SpecPayload == InitPayload /\ [][NextPayload]_vars

(***************************************************************************)
(* map(ary, each, done) as a run.  each is encodeOne; when its callback is *)
(* invoked is left open: before each returns, or at any time after map     *)
(* has returned, in any order.  after(n, done) is the barrier of the       *)
(* "after" package: done() at once when n is 0, otherwise a function that  *)
(* counts n down and calls done(null, result) when it reaches 0.           *)
(***************************************************************************)
\* an element of new Array(n) that was never assigned
Hole == [t |-> "hole"]

Null == [t |-> "null"]

Arr(v) == [t |-> "array", v |-> v]

\* done(e, r)
DoneCall(e, r) == [err |-> e, results |-> r]

\* done(): both parameters are undefined
NoArguments == DoneCall(Undefined, Undefined)

\* mutant of SetResult: the message is stored at the first free index
SetResult_push(res, k, msg) ==
    [res EXCEPT ![CHOOSE j \in DOMAIN res :
                     res[j] = Hole /\ \A h \in 1..(j - 1) : res[h] # Hole] = msg]

\* result[i] = msg, for the element at position k = i + 1
SetResult(res, k, msg) == [res EXCEPT ![k] = msg]

\* the callback eachWithIndex hands to each, invoked for the element at k:
\* the result is stored, then next(error, result) counts the barrier down
Complete(k) ==
    /\ result' = SetResult(result, k,
                    Str(encodeOne(packetsIn[k], hasBinary(packetsIn), supportsBinary)))
    /\ IF count <= 0
       THEN UNCHANGED <<count, doneCalls>>
       ELSE /\ count' = count - 1
            /\ doneCalls' = IF count - 1 = 0
                            THEN Append(doneCalls, DoneCall(Null, Arr(result')))
                            ELSE doneCalls

MapPackets == {[type |-> "message", data |-> Str(<<"a">>)],
               [type |-> "ping"],
               [type |-> "message", data |-> Str(<<"b", "c">>)]}

MapInputs == Strings(MapPackets, MaxMapLen)

InitMap ==
    /\ packetsIn \in MapInputs
    /\ supportsBinary = FALSE
    /\ pc = "map"
    /\ packet = NoPacket
    /\ wire = Undefined
    /\ decoded = NoPacket
    /\ encoded = <<>>
    /\ data = <<>>
    /\ i = 0
    /\ length = <<>>
    /\ calls = <<>>
    /\ lastRet = "none"
    /\ MapIdle

\* var result = new Array(ary.length); var next = after(ary.length, done)
MapBegin ==
    /\ pc = "map"
    /\ result' = [k \in 1..Len(packetsIn) |-> Hole]
    /\ count' = Len(packetsIn)
    /\ doneCalls' = IF Len(packetsIn) = 0 THEN <<NoArguments>> ELSE <<>>
    /\ pending' = {}
    /\ i' = 0
    /\ pc' = "mapLoop"
    /\ UNCHANGED <<packet, supportsBinary, wire, decoded, packetsIn, encoded,
                   data, length, calls, lastRet>>

\* one iteration of the loop: eachWithIndex(i, ary[i], next)
MapEach ==
    /\ pc = "mapLoop"
    /\ i < Len(packetsIn)
    /\ \E sync \in BOOLEAN :
          IF sync
          THEN /\ Complete(i + 1)
               /\ UNCHANGED pending
          ELSE /\ pending' = pending \cup {i + 1}
               /\ UNCHANGED <<result, count, doneCalls>>
    /\ i' = i + 1
    /\ UNCHANGED <<pc, packet, supportsBinary, wire, decoded, packetsIn, encoded,
                   data, length, calls, lastRet>>

\* the loop ends and map returns
MapReturn ==
    /\ pc = "mapLoop"
    /\ i >= Len(packetsIn)
    /\ pc' = "mapWait"
    /\ UNCHANGED <<packet, supportsBinary, wire, decoded, packetsIn, encoded,
                   data, i, length, calls, lastRet>>
    /\ UNCHANGED mapVars

\* an operation that did not complete inside each completes after map returned
MapComplete ==
    /\ pc = "mapWait"
    /\ \E k \in pending :
          /\ Complete(k)
          /\ pending' = pending \ {k}
    /\ UNCHANGED <<pc, packet, supportsBinary, wire, decoded, packetsIn, encoded,
                   data, i, length, calls, lastRet>>

NextMap == MapBegin \/ MapEach \/ MapReturn \/ MapComplete

SpecMap == InitMap /\ [][NextMap]_vars

(***************************************************************************)
(* Properties.                                                             *)
(***************************************************************************)
Last(q) == q[Len(q)]

\* every packet carries text or no data
TextPayload(ps) == \A k \in DOMAIN ps : ~HasData(ps[k]) \/ ps[k].data.t = "string"

\* decodePayload returned and the consumer neither halted it nor threw
Completed == pc = "done" /\ lastRet \notin {"false", "throw"}

\* the packet as it comes back: empty text is not told apart from no data
WithoutEmptyData(p) ==
    IF HasData(p) /\ p.data = Str(<<>>) THEN [type |-> p.type] ELSE p

\* C1 as stated: decoding the stream encodePayload produced for text packets
\* delivers exactly the original packets, in order, and no error packet.
C1_Original ==
    (Completed /\ TextPayload(packetsIn)) =>
        /\ Len(calls) = Len(packetsIn)
        /\ \A k \in DOMAIN calls : calls[k].packet = packetsIn[k]

\* C1 amended: decoding the stream encodePayload produced for text packets
\* delivers one packet per original packet, in order, each with the same type
\* and the same data, a packet whose data is the empty string being delivered
\* with no data field; the error packet is never delivered.
C1_PayloadRoundTrip ==
    (Completed /\ TextPayload(packetsIn)) =>
        /\ Len(calls) = Len(packetsIn)
        /\ \A k \in DOMAIN calls :
              /\ calls[k].packet = WithoutEmptyData(packetsIn[k])
              /\ calls[k].packet # err

C1_Witness ==
    /\ Completed
    /\ Len(packetsIn) >= 2
    /\ Len(calls) = Len(packetsIn)
    /\ \E k \in DOMAIN packetsIn :
          /\ HasData(packetsIn[k])
          /\ packetsIn[k].data.t = "string"
          /\ ":" \in Range(packetsIn[k].data.v)
          /\ calls[k].packet = packetsIn[k]

\* the run encoded a packet with text data on the text channel and decoded it
TextRoundTrip ==
    /\ pc = "decoded"
    /\ packet # NoPacket
    /\ HasData(packet)
    /\ packet.data.t = "string"
    /\ ~supportsBinary

\* C2 as stated: decodePacket of encodePacket of a packet with text data d
\* returns the same type and a data field equal to d, the empty string included.
C2_Original == TextRoundTrip => decoded = packet

\* C2 amended: decodePacket of encodePacket of a packet with text data d returns
\* the same type and, when d is not empty, a data field equal to d; when d is
\* the empty string the returned packet has no data field.
C2_TextRoundTrip ==
    TextRoundTrip =>
        decoded = (IF packet.data.v = <<>> THEN [type |-> packet.type] ELSE packet)

C2_Witness ==
    /\ TextRoundTrip
    /\ Len(packet.data.v) >= 2
    /\ packet.data.v[1] = "7"
    /\ decoded = packet

\* C3: encodePacket of a packet with no data yields the one-character string of
\* the type's decimal code, and decodePacket of it returns the same type with
\* no data field.
C3_NoDataRoundTrip ==
    (pc \in {"wire", "decoded"} /\ packet # NoPacket /\ ~HasData(packet)) =>
        /\ wire = Str(<<DecDigits[packets[packet.type] + 1]>>)
        /\ pc = "decoded" => (decoded = [type |-> packet.type] /\ ~HasData(decoded))

C3_Witness ==
    /\ pc = "decoded"
    /\ packet = [type |-> "noop"]
    /\ wire = Str(<<"6">>)
    /\ decoded = [type |-> "noop"]

\* the encoded form of a delivered packet: its type digit, then its text
WireOf(p) == encodePacket(p, FALSE).v

\* C4: the callback invocations of one decodePayload call are valid packets in
\* stream order, optionally followed by one invocation with the error packet and
\* (0, 1); nothing is invoked after the error packet.
C4_CallbackProtocol ==
    \A k \in DOMAIN calls :
        IF calls[k].packet = err
        THEN /\ k = Len(calls)
             /\ calls[k].pos = 0
             /\ calls[k].total = 1
             /\ pc = "done"
        ELSE /\ calls[k].packet.type \in Types
             /\ calls[k].pos < Len(data)
             /\ LET w == WireOf(calls[k].packet)
                IN  /\ calls[k].pos + 1 >= Len(w)
                    /\ SubSeq(data, calls[k].pos + 2 - Len(w), calls[k].pos + 1) = w
             /\ k > 1 => calls[k - 1].pos < calls[k].pos - Len(WireOf(calls[k].packet))

C4_Witness ==
    /\ Len(calls) = 3
    /\ calls[1].packet # err
    /\ calls[2].packet # err
    /\ calls[3] = Call(err, 0, 1)

\* the cursor is on a ':' that ends a length prefix
AtColon == pc = "loop" /\ i < Len(data) /\ data[i + 1] = ":"

\* the accumulated prefix is not the decimal digits of a non-negative integer
BadPrefix == length = <<>> \/ ~AllDigits(length, 10)

\* C5: at a ':' whose accumulated prefix is empty or is not exactly decimal
\* digits, the callback is invoked with (error packet, 0, 1) and the scan stops.
C5_StrictPrefix ==
    [][(AtColon /\ BadPrefix) =>
            (calls' = Append(calls, Call(err, 0, 1)) /\ pc' = "done")]_vars

\* C6: encodePacket with supportsBinary and a binary chunk hands its callback a
\* binary buffer: the type code, then the chunk's bytes.
C6_BinaryEncode ==
    (pc \in {"wire", "decoded"} /\ packet # NoPacket /\ supportsBinary
        /\ HasData(packet) /\ packet.data.t = "binary") =>
        /\ wire.t = "binary"
        /\ wire.v = <<packets[packet.type]>> \o packet.data.v

Stream3_4ab == <<"3", ":", "4", "a", "b">>

\* C7 as stated: decodePayload("3:4ab") invokes the callback once, with the
\* error packet.
C7_Original ==
    (data = Stream3_4ab /\ pc = "done") =>
        (Len(calls) = 1 /\ calls[1].packet = err)

\* C7 amended: decodePayload("3:4ab") invokes the callback exactly once, with
\* the packet {type: "message", data: "ab"} and the arguments (4, 5), and never
\* with the error packet.
C7_ThreeFourAB ==
    (data = Stream3_4ab /\ pc = "done") =>
        calls = <<Call([type |-> "message", data |-> Str(<<"a", "b">>)], 4, 5)>>

C7_Witness == data = Stream3_4ab /\ pc = "done" /\ Len(calls) = 1

\* C8: once a packet callback has returned false no callback is invoked again;
\* after a packet callback that returns undefined, 0 or null the scan goes on
\* behind the delivered frame.
C8_EarlyExit ==
    [][/\ (calls # <<>> /\ lastRet = "false") => calls' = calls
       /\ (Len(calls') > Len(calls) /\ Last(calls').packet # err
              /\ lastRet' \in {"undefined", "0", "null"}) =>
            (pc' = "loop" /\ i' = Last(calls').pos + 1 /\ length' = <<>>)]_vars

C8_Witness ==
    /\ pc = "done"
    /\ lastRet = "false"
    /\ Len(calls) = 1
    /\ calls[1].packet # err
    /\ calls[1].pos + 3 < Len(data)
    /\ data[calls[1].pos + 3] = ":"

\* C9: decodePacket returns the error packet for undefined, for the empty string
\* and for every string that does not start with a digit 0..6, and a packet of
\* the type mapped to the digit for every string that starts with one.
C9_TextValidation ==
    (pc = "decoded" /\ wire.t \in {"undefined", "string"}) =>
        IF wire.t = "string" /\ wire.v # <<>>
              /\ wire.v[1] \in {"0", "1", "2", "3", "4", "5", "6"}
        THEN /\ decoded # err
             /\ decoded.type = packetslist[IndexOf(wire.v[1], DecDigits)]
        ELSE decoded = err

C9_Witness ==
    /\ pc = "decoded"
    /\ packet = NoPacket
    /\ wire.t = "string"
    /\ Len(wire.v) = 2
    /\ wire.v[1] = "9"
    /\ decoded = err

\* C10: encodePayload of no packets hands "0:" to its callback, and decodePayload
\* of that stream invokes no callback.
C10_EmptyPayload ==
    (packetsIn = <<>> /\ pc # "encode") =>
        /\ encoded = <<<<"0", ":">>>>
        /\ data = <<"0", ":">>
        /\ calls = <<>>

C10_Witness == packetsIn = <<>> /\ pc = "done" /\ calls = <<>> /\ i = 2

\* the type digit of a packet, then its text if it carries any
EncodedForm(p) ==
    <<DecDigits[packets[p.type] + 1]>> \o (IF HasData(p) THEN p.data.v ELSE <<>>)

\* stream is, for each packet of ps in order, a frame <n>:<w> where w is the
\* packet's encoded form and n the decimal digits of the length of w
RECURSIVE IsFramesOf(_, _)
IsFramesOf(stream, ps) ==
    IF ps = <<>> THEN stream = <<>>
    ELSE LET w == EncodedForm(ps[1])
         IN  \E k \in 1..Len(stream) :
                /\ AllDigits(SubSeq(stream, 1, k), 10)
                /\ (k > 1 => stream[1] # "0")
                /\ DigitsValue(SubSeq(stream, 1, k), 10) = Len(w)
                /\ Len(stream) >= k + 1 + Len(w)
                /\ stream[k + 1] = ":"
                /\ SubSeq(stream, k + 2, k + 1 + Len(w)) = w
                /\ IsFramesOf(Drop(stream, k + 1 + Len(w)), Tail(ps))

HelloHiPayload ==
    <<[type |-> "message", data |-> Str(HelloWorld)],
      [type |-> "message", data |-> Str(<<"h", "i">>)]>>

\* the stream the claim gives for HelloHiPayload
HelloHiClaimed ==
    <<"1", "1", ":", "4", "h", "e", "l", "l", "o", " ", "w", "o", "r", "l", "d",
      "2", ":", "4", "h", "i">>

\* the stream whose lengths count the type digit
HelloHiStream ==
    <<"1", "2", ":", "4", "h", "e", "l", "l", "o", " ", "w", "o", "r", "l", "d",
      "3", ":", "4", "h", "i">>

\* C11 as stated: for a non-empty sequence of packets with text or no data,
\* encodePayload hands its callback, once, the frames <n>:<w> of the packets in
\* input order; the messages "hello world" and "hi" give "11:4hello world2:4hi".
C11_Original ==
    (pc # "encode" /\ packetsIn # <<>> /\ TextPayload(packetsIn)) =>
        /\ Len(encoded) = 1
        /\ IsFramesOf(encoded[1], packetsIn)
        /\ packetsIn = HelloHiPayload => encoded[1] = HelloHiClaimed

\* C11 amended: for a non-empty sequence of packets with text or no data,
\* encodePayload hands its callback, once, the frames <n>:<w> of the packets in
\* input order, n counting the type digit of w; the messages "hello world" and
\* "hi" give "12:4hello world3:4hi".
C11_WireFormat ==
    (pc # "encode" /\ packetsIn # <<>> /\ TextPayload(packetsIn)) =>
        /\ Len(encoded) = 1
        /\ IsFramesOf(encoded[1], packetsIn)
        /\ packetsIn = HelloHiPayload => encoded[1] = HelloHiStream

C11_Witness ==
    /\ pc = "decode"
    /\ packetsIn = HelloHiPayload
    /\ encoded = <<HelloHiStream>>

\* the step invokes the callback with (error packet, 0, 1) and ends the scan
ErrorStep == calls' = Append(calls, Call(err, 0, 1)) /\ pc' = "done"

\* the prefix before the ':' under the cursor is the decimal digits of a length
DigitPrefixAtColon == AtColon /\ length # <<>> /\ AllDigits(length, 10)

\* the length the prefix declares
Declared == DigitsValue(length, 10)

\* the characters of the stream behind the ':' under the cursor
Remaining == Len(data) - (i + 1)

\* the scan ran off the end of the stream inside a length prefix
EndsInPrefix == pc = "loop" /\ i >= Len(data) /\ length # <<>>

\* C12: when fewer characters are left after a ':' than the prefix declares, or
\* the stream ends inside a length prefix, the callback is invoked with
\* (error packet, 0, 1), nothing is delivered from the incomplete frame and the
\* scan ends.
C12_IncompleteStream ==
    [][((DigitPrefixAtColon /\ Declared > Remaining) \/ EndsInPrefix) => ErrorStep]_vars

C12_Witness ==
    /\ pc = "done"
    /\ Len(calls) >= 2
    /\ calls[1].packet # err
    /\ Last(calls) = Call(err, 0, 1)
    /\ i < Len(data)
    /\ data[i + 1] = ":"
    /\ length # <<>>
    /\ AllDigits(length, 10)
    /\ DigitsValue(length, 10) > Len(data) - (i + 1)

\* the frame at the cursor is complete and does not start with a type digit
MalformedPacketAtColon ==
    /\ DigitPrefixAtColon
    /\ Declared >= 1
    /\ Declared <= Remaining
    /\ data[i + 2] \notin {"0", "1", "2", "3", "4", "5", "6"}

\* C13: a frame with a correct length prefix whose content does not start with
\* a digit 0..6 makes decodePayload invoke the callback with (error packet, 0, 1)
\* and end the scan, whatever follows the frame.
C13_MalformedPacket ==
    [][MalformedPacketAtColon => ErrorStep]_vars

C13_Witness ==
    /\ data = <<"1", ":", "9", "1", ":", "4">>
    /\ pc = "done"
    /\ i = 1
    /\ calls = <<Call(err, 0, 1)>>

\* C14: decodePayload("") invokes the callback exactly once, with the error
\* packet and (0, 1); decodePayload("0:") invokes it not at all.
C14_EmptyStream ==
    /\ data = <<>> => (Len(calls) <= 1 /\ (pc = "done" => calls = <<Call(err, 0, 1)>>))
    /\ data = <<"0", ":">> => calls = <<>>

C14_Witness == data = <<>> /\ pc = "done" /\ calls = <<Call(err, 0, 1)>>

ZeroFrameStream == <<"2", ":", "4", "a", "0", ":", "2", ":", "4", "b">>

\* C16: a frame "0:" causes no callback and no error, and the scan goes on with
\* the frame behind it: "2:4a0:2:4b" delivers the two message packets.
C16_ZeroLengthFrame ==
    /\ [][(AtColon /\ length = <<"0">>) =>
            (calls' = calls /\ pc' = "loop" /\ i' = i + 1 /\ length' = <<>>)]_vars
    /\ []((data = ZeroFrameStream /\ Completed) =>
            /\ Len(calls) = 2
            /\ calls[1].packet = [type |-> "message", data |-> Str(<<"a">>)]
            /\ calls[2].packet = [type |-> "message", data |-> Str(<<"b">>)])

C16_Witness ==
    /\ data = ZeroFrameStream
    /\ Completed
    /\ Len(calls) = 2
    /\ calls[2].packet = [type |-> "message", data |-> Str(<<"b">>)]

\* C18: in every packet callback the third argument is the length of the stream
\* and the second is the index of the last character of the packet's frame: the
\* index of the frame's ':' plus the declared length; it increases from one
\* invocation to the next, is less than the third argument, and is the third
\* minus 1 exactly when nothing follows the frame.
C18_PositionArguments ==
    /\ [](\A k \in DOMAIN calls :
            calls[k].packet # err =>
                LET w == WireOf(calls[k].packet)
                IN  /\ calls[k].total = Len(data)
                    /\ calls[k].pos < calls[k].total
                    /\ calls[k].pos - Len(w) >= 1
                    /\ data[calls[k].pos - Len(w) + 1] = ":"
                    /\ SubSeq(data, calls[k].pos - Len(w) + 2, calls[k].pos + 1) = w
                    /\ (k > 1 => calls[k - 1].pos < calls[k].pos)
                    /\ (calls[k].pos = calls[k].total - 1
                            <=> Drop(data, calls[k].pos + 1) = <<>>))
    /\ [][(Len(calls') > Len(calls) /\ Last(calls').packet # err) =>
            /\ AtColon
            /\ ~Number(length).nan
            /\ Last(calls').pos = i + Number(length).int]_vars

C18_Witness ==
    /\ Len(calls) = 3
    /\ calls[1].packet # err /\ calls[2].packet # err /\ calls[3].packet # err
    /\ calls[1].pos < calls[2].pos /\ calls[2].pos < calls[3].pos
    /\ calls[3].pos = calls[3].total - 1

\* the ':' characters of a string
ColonCount(s) == Cardinality({k \in DOMAIN s : s[k] = ":"})

\* C19: the scan ends; the cursor never moves backwards and moves past every
\* frame it consumes, delivered frames do not overlap, and there are at most as
\* many callback invocations as ':' characters in the stream, plus one.
C19_Progress ==
    /\ <>(pc = "done")
    /\ [][pc = "loop" => (pc' = "done" \/ (pc' = "loop" /\ i' > i))]_vars
    /\ [](i <= Len(data))
    /\ [](Len(calls) <= ColonCount(data) + 1)
    /\ [](\A k \in DOMAIN calls :
            (k > 1 /\ calls[k].packet # err) =>
                calls[k - 1].pos < calls[k].pos - Len(WireOf(calls[k].packet)))

C19_Witness ==
    /\ pc = "done"
    /\ i = Len(data)
    /\ Len(calls) = 3
    /\ ColonCount(data) = 3
    /\ calls[3].packet # err

\* C17: decodePacket of a binary value never returns the error packet: the type
\* is the name at the first byte's index in the table when the byte is in 0..6
\* and undefined (written "") otherwise, and the data is the input from
\* offset 1 to its end.
C17_BinaryDecode ==
    (pc = "decoded" /\ wire.t = "binary") =>
        /\ decoded # err
        /\ decoded.type # "error"
        /\ decoded.type =
              (IF wire.v # <<>> /\ wire.v[1] \in 0..6
               THEN packetslist[wire.v[1] + 1] ELSE "")
        /\ decoded.data = Bin(wire.kind, SubSeq(wire.v, 2, Len(wire.v)))

C17_Witness ==
    /\ pc = "decoded"
    /\ wire = Bin("ArrayBuffer", <<255, 4>>)
    /\ decoded = [type |-> "", data |-> Bin("ArrayBuffer", <<4>>)]

\* the results of the operations, in the order of the input elements
MapResults ==
    [k \in DOMAIN packetsIn |->
        Str(map(packetsIn, hasBinary(packetsIn), supportsBinary)[k])]

\* the operations that have completed: those started and no longer pending
Completions == i - Cardinality(pending)

\* C15: for N >= 1 elements whose operations complete once each, in any order
\* and at any time, done is invoked exactly once, only after all N have
\* completed, with the N results in the order of the input elements; joined,
\* they are the frames of the packets in input order.
C15_OrderedMap ==
    (pc \in {"mapLoop", "mapWait"} /\ Len(packetsIn) >= 1) =>
        /\ Len(doneCalls) <= 1
        /\ doneCalls # <<>> =>
              /\ Completions = Len(packetsIn)
              /\ doneCalls[1] = DoneCall(Null, Arr(MapResults))
              /\ Len(doneCalls[1].results.v) = Len(packetsIn)
              /\ Join([k \in DOMAIN packetsIn |-> doneCalls[1].results.v[k].v])
                    = encodePayload(packetsIn, supportsBinary)
        /\ Completions = Len(packetsIn) => Len(doneCalls) = 1

C15_Witness ==
    /\ pc = "mapWait"
    /\ Len(packetsIn) = 3
    /\ packetsIn[1] # packetsIn[2] /\ packetsIn[2] # packetsIn[3]
    /\ pending = {}
    /\ doneCalls = <<DoneCall(Null, Arr(MapResults))>>

====
